---- MODULE Spec2Model ----
(***************************************************************************)
(* Model of the session authentication gateway of nfl-pickem               *)
(* (src/http/server.go): login, logout, loginState, verifyLogin and the    *)
(* requireLogin middleware, together with one client that keeps the        *)
(* cookie the server hands it.                                             *)
(*                                                                         *)
(* A handler is a sequence of calls on the http.ResponseWriter and on the  *)
(* collaborators; the model records that sequence as the response trace.   *)
(***************************************************************************)
EXTENDS Integers, Sequences, FiniteSets, TLC

VARIABLES
    now,    \* the server's clock, read by the cookie codec
    jar,    \* the client's cookie jar: NoCookie or the value of nflpickem
    req,    \* the last request served, and when: [op, cookie, auth, at]
    env,    \* what the collaborators answered while serving it: [dbUp, sealOk]
    resp,   \* the calls the handler made while serving it, in order
    calls,  \* requests served concurrently: what each sender sent and got back
    frames, \* requests served concurrently: what each handler invocation holds
    wk      \* the last computation of nextNFLWeek: [t, next]

vars == <<now, jar, req, env, resp, calls, frames, wk>>

(***************************************************************************)
(* Bounds of the model.                                                    *)
(***************************************************************************)
\* The clock stops here.
MaxTime == 2
\* The last day (counted from 1970-01-01) handed to nextNFLWeek.
MaxDay == 27
\* Age (in ticks) after which the codec rejects a token (securecookie's maxAge).
TokenLifetime == 1

(***************************************************************************)
(* Values.                                                                 *)
(***************************************************************************)
CookieName == "nflpickem"

\* nflpickem.User: the fields the gateway reads (FirstName, Email).
Alice == [FirstName |-> "Alice", Email |-> "alice@example.com"]
Bob == [FirstName |-> "Bob", Email |-> "bob@example.com"]
Users == {Alice, Bob}
\* nflpickem.User{}: Go's zero value, returned beside every error.
ZeroUser == [FirstName |-> "", Email |-> ""]

\* The two keys handed to securecookie.New, and another pair.
ServerKeys == "server-keys"
OtherKeys == "other-keys"

\* A sealed value: who it names, the keys and time it was sealed with, the
\* cookie name covered by its MAC, and whether its bytes are as sealed.
Tokens ==
    [name : {CookieName}, user : Users, keys : {ServerKeys, OtherKeys},
     ts : 0..MaxTime, intact : BOOLEAN]

NoCookie == [none |-> "cookie"]
NoAuth == [none |-> "auth"]
Nil == [none |-> "nil"]

Logins == {"alice@example.com", "bob@example.com"}
Passwords == {"alice-pw", "bob-pw"}
BasicAuths == [u : Logins, p : Passwords]

RequestAuths == {NoAuth} \cup BasicAuths

\* What a sender can put in the Cookie header at time t while holding j: nothing,
\* what it holds, what it holds with a byte changed, or a value it sealed
\* itself under keys of its own.  A value sealed under the server's keys it can
\* only have been given.
Tamper(j) == IF j \in Tokens THEN {[j EXCEPT !.intact = FALSE]} ELSE {}
SelfSealed(t) ==
    [name : {CookieName}, user : Users, keys : {OtherKeys}, ts : {t},
     intact : {TRUE}]
RequestCookies(j, t) == {NoCookie, j} \cup Tamper(j) \cup SelfSealed(t)

Ops == {"login", "logout", "state", "guard", "current"}

(***************************************************************************)
(* The Credential Verifier, nflpickem.Service.CheckCredentials: the        *)
(* identity whose login and secret match, or an error.  dbUp is whether    *)
(* the datastore answered.                                                 *)
(***************************************************************************)
Account(u) ==
    CASE u = "alice@example.com" -> [user |-> Alice, p |-> "alice-pw"]
      [] u = "bob@example.com" -> [user |-> Bob, p |-> "bob-pw"]
      [] OTHER -> [user |-> ZeroUser, p |-> ""]

CheckCredentials(u, p, dbUp) ==
    IF ~dbUp
    THEN [user |-> ZeroUser, err |-> [msg |-> "datastore unavailable"]]
    ELSE IF Account(u).user \in Users /\ Account(u).p = p
         THEN [user |-> Account(u).user, err |-> Nil]
         ELSE [user |-> ZeroUser, err |-> [msg |-> "invalid credentials"]]

(***************************************************************************)
(* The Sealed Session Codec, securecookie.SecureCookie.                    *)
(***************************************************************************)
\* s.sc.Encode(name, value): the sealed value, or an error.
Encode(name, user, t, sealOk) ==
    IF sealOk
    THEN [value |-> [name |-> name, user |-> user, keys |-> ServerKeys,
                     ts |-> t, intact |-> TRUE],
          err |-> Nil]
    ELSE [value |-> Nil, err |-> [msg |-> "securecookie: the value is too long"]]

\* s.sc.Decode(name, value, &user): the identity sealed in value, or an error
\* when the MAC, the keys, the name or the age do not check.
Decode(name, value, t) ==
    IF /\ value \in Tokens
       /\ value.name = name
       /\ value.keys = ServerKeys
       /\ value.intact
       /\ value.ts >= t - TokenLifetime
    THEN [user |-> value.user, err |-> Nil]
    ELSE [user |-> ZeroUser, err |-> [msg |-> "securecookie: the value is not valid"]]

(***************************************************************************)
(* net/http: the request's cookie and credentials, the response writer.    *)
(***************************************************************************)
ErrNoCookie == [msg |-> "http: named cookie not present"]

\* r.Cookie(name): cookies of a request carry a name and a value only.
Cookie(r, name) ==
    IF r.cookie = NoCookie
    THEN [cookie |-> Nil, err |-> ErrNoCookie]
    ELSE [cookie |-> [Name |-> name, Value |-> r.cookie, MaxAge |-> 0,
                      Secure |-> FALSE, HttpOnly |-> FALSE],
          err |-> Nil]

\* r.BasicAuth()
BasicAuth(r) ==
    IF r.auth = NoAuth
    THEN [u |-> "", p |-> "", ok |-> FALSE]
    ELSE [u |-> r.auth.u, p |-> r.auth.p, ok |-> TRUE]

\* The calls a handler makes, as entries of the response trace.
SetCookie(c) == [ev |-> "SetCookie", cookie |-> c]
Called(u, p) == [ev |-> "CheckCredentials", u |-> u, p |-> p]
NextCalled(user) == [ev |-> "next", user |-> user]
Panic == [ev |-> "panic"]
Write(code, body) == [ev |-> "Write", code |-> code, body |-> body]

StatusBadRequest == 400
StatusUnauthorized == 401
StatusInternalServerError == 500
StatusOK == 200

\* The JSON envelopes of the http package.
WriteJSONError(code, msg) == Write(code, [status |-> "error", message |-> msg])
WriteJSONSuccess(msg) == Write(StatusOK, [status |-> "ok", message |-> msg])
WriteJSON(v) == Write(StatusOK, v)

(***************************************************************************)
(* The handlers of Server.  Each takes the request r = [cookie, auth], the *)
(* collaborators' answers e = [dbUp, sealOk] and the time t, and yields    *)
(* the response trace.                                                     *)
(***************************************************************************)
\* newEncodedCookie with HttpOnly left at its zero value.
newEncodedCookie_NotHttpOnly(name, user, t, sealOk) ==
    LET enc == Encode(name, user, t, sealOk)
    IN  IF enc.err /= Nil
        THEN [cookie |-> Nil, err |-> enc.err]
        ELSE [cookie |-> [Name |-> name, Value |-> enc.value, MaxAge |-> 0,
                          Secure |-> FALSE, HttpOnly |-> FALSE],
              err |-> Nil]

\* newEncodedCookie(name, value)
newEncodedCookie(name, user, t, sealOk) ==
    LET enc == Encode(name, user, t, sealOk)
    IN  IF enc.err /= Nil
        THEN [cookie |-> Nil, err |-> enc.err]
        ELSE [cookie |-> [Name |-> name, Value |-> enc.value, MaxAge |-> 0,
                          Secure |-> FALSE, HttpOnly |-> TRUE],
              err |-> Nil]

\* login with the check of the verifier's error left out.
login_IgnoresVerifierError(r, e, t) ==
    LET ba == BasicAuth(r)
        chk == CheckCredentials(ba.u, ba.p, e.dbUp)
        ck == newEncodedCookie(CookieName, chk.user, t, e.sealOk)
    IN  IF ~ba.ok
        THEN <<WriteJSONError(StatusBadRequest, "missing credentials")>>
        ELSE IF ck.err /= Nil
        THEN <<Called(ba.u, ba.p),
               WriteJSONError(StatusInternalServerError, ck.err.msg)>>
        ELSE <<Called(ba.u, ba.p), SetCookie(ck.cookie),
               WriteJSONSuccess("successfully logged in")>>

\* login with the call of http.SetCookie left out.
login_ForgetsSetCookie(r, e, t) ==
    LET ba == BasicAuth(r)
        chk == CheckCredentials(ba.u, ba.p, e.dbUp)
        ck == newEncodedCookie(CookieName, chk.user, t, e.sealOk)
    IN  IF ~ba.ok
        THEN <<WriteJSONError(StatusBadRequest, "missing credentials")>>
        ELSE IF chk.err /= Nil
        THEN <<Called(ba.u, ba.p),
               WriteJSONError(StatusInternalServerError, chk.err.msg)>>
        ELSE IF ck.err /= Nil
        THEN <<Called(ba.u, ba.p),
               WriteJSONError(StatusInternalServerError, ck.err.msg)>>
        ELSE <<Called(ba.u, ba.p), WriteJSONSuccess("successfully logged in")>>

\* login taking a session cookie that decodes in place of missing credentials.
login_AcceptsCookie(r, e, t) ==
    LET ba == BasicAuth(r)
        c == Cookie(r, CookieName)
        chk == CheckCredentials(ba.u, ba.p, e.dbUp)
        ck == newEncodedCookie(CookieName, chk.user, t, e.sealOk)
    IN  IF ~ba.ok /\ c.err = Nil /\ Decode(CookieName, c.cookie.Value, t).err = Nil
        THEN <<WriteJSONSuccess("successfully logged in")>>
        ELSE IF ~ba.ok
        THEN <<WriteJSONError(StatusBadRequest, "missing credentials")>>
        ELSE IF chk.err /= Nil
        THEN <<Called(ba.u, ba.p),
               WriteJSONError(StatusInternalServerError, chk.err.msg)>>
        ELSE IF ck.err /= Nil
        THEN <<Called(ba.u, ba.p),
               WriteJSONError(StatusInternalServerError, ck.err.msg)>>
        ELSE <<Called(ba.u, ba.p), SetCookie(ck.cookie),
               WriteJSONSuccess("successfully logged in")>>

\* Server.login
login(r, e, t) ==
    LET ba == BasicAuth(r)
        chk == CheckCredentials(ba.u, ba.p, e.dbUp)
        ck == newEncodedCookie(CookieName, chk.user, t, e.sealOk)
    IN  IF ~ba.ok
        THEN <<WriteJSONError(StatusBadRequest, "missing credentials")>>
        ELSE IF chk.err /= Nil
        THEN <<Called(ba.u, ba.p),
               WriteJSONError(StatusInternalServerError, chk.err.msg)>>
        ELSE IF ck.err /= Nil
        THEN <<Called(ba.u, ba.p),
               WriteJSONError(StatusInternalServerError, ck.err.msg)>>
        ELSE <<Called(ba.u, ba.p), SetCookie(ck.cookie),
               WriteJSONSuccess("successfully logged in")>>

\* logout with the assignment of MaxAge left out.
logout_KeepsCookie(r, e, t) ==
    LET c == Cookie(r, CookieName)
    IN  IF c.err /= Nil /\ c.err /= ErrNoCookie
        THEN <<WriteJSONError(StatusInternalServerError, c.err.msg)>>
        ELSE IF c.cookie = Nil
        THEN <<Panic>>
        ELSE <<SetCookie(c.cookie), WriteJSONSuccess("succesful logout")>>

\* Server.logout.  With no cookie in the request r.Cookie returns a nil
\* *http.Cookie beside http.ErrNoCookie, and the assignment to cookie.MaxAge
\* dereferences it: the handler panics before it writes anything.
logout(r, e, t) ==
    LET c == Cookie(r, CookieName)
    IN  IF c.err /= Nil /\ c.err /= ErrNoCookie
        THEN <<WriteJSONError(StatusInternalServerError, c.err.msg)>>
        ELSE IF c.cookie = Nil
        THEN <<Panic>>
        ELSE <<SetCookie([c.cookie EXCEPT !.MaxAge = -1]),
               WriteJSONSuccess("succesful logout")>>

errNoLogin == [msg |-> "no login information found"]

\* verifyLogin trying the Basic Auth credentials before the cookie.
verifyLogin_AuthFirst(r, e, t) ==
    LET c == Cookie(r, CookieName)
        dec == IF c.err = Nil
               THEN Decode(CookieName, c.cookie.Value, t)
               ELSE [user |-> ZeroUser, err |-> c.err]
        ba == BasicAuth(r)
        chk == CheckCredentials(ba.u, ba.p, e.dbUp)
        ck == newEncodedCookie(CookieName, chk.user, t, e.sealOk)
    IN  IF ba.ok /\ chk.err = Nil /\ ck.err = Nil
        THEN [user |-> chk.user, err |-> Nil,
              calls |-> <<Called(ba.u, ba.p), SetCookie(ck.cookie)>>]
        ELSE IF c.err = Nil /\ dec.err = Nil
        THEN [user |-> dec.user, err |-> Nil,
              calls |-> IF ba.ok THEN <<Called(ba.u, ba.p)>> ELSE <<>>]
        ELSE IF ~ba.ok
        THEN [user |-> ZeroUser, err |-> errNoLogin, calls |-> <<>>]
        ELSE IF chk.err /= Nil
        THEN [user |-> ZeroUser, err |-> chk.err,
              calls |-> <<Called(ba.u, ba.p)>>]
        ELSE [user |-> ZeroUser, err |-> ck.err,
              calls |-> <<Called(ba.u, ba.p)>>]

\* verifyLogin with the call of http.SetCookie left out of the fallback.
verifyLogin_NoReissue(r, e, t) ==
    LET c == Cookie(r, CookieName)
        dec == IF c.err = Nil
               THEN Decode(CookieName, c.cookie.Value, t)
               ELSE [user |-> ZeroUser, err |-> c.err]
        ba == BasicAuth(r)
        chk == CheckCredentials(ba.u, ba.p, e.dbUp)
        ck == newEncodedCookie(CookieName, chk.user, t, e.sealOk)
    IN  IF c.err = Nil /\ dec.err = Nil
        THEN [user |-> dec.user, err |-> Nil, calls |-> <<>>]
        ELSE IF ~ba.ok
        THEN [user |-> ZeroUser, err |-> errNoLogin, calls |-> <<>>]
        ELSE IF chk.err /= Nil
        THEN [user |-> ZeroUser, err |-> chk.err,
              calls |-> <<Called(ba.u, ba.p)>>]
        ELSE IF ck.err /= Nil
        THEN [user |-> ZeroUser, err |-> ck.err,
              calls |-> <<Called(ba.u, ba.p)>>]
        ELSE [user |-> chk.user, err |-> Nil,
              calls |-> <<Called(ba.u, ba.p)>>]

\* verifyLogin returning the codec's error for a cookie that does not decode,
\* instead of going on to the Basic Auth credentials.
verifyLogin_NoFallbackOnBadCookie(r, e, t) ==
    LET c == Cookie(r, CookieName)
        dec == IF c.err = Nil
               THEN Decode(CookieName, c.cookie.Value, t)
               ELSE [user |-> ZeroUser, err |-> c.err]
        ba == BasicAuth(r)
        chk == CheckCredentials(ba.u, ba.p, e.dbUp)
        ck == newEncodedCookie(CookieName, chk.user, t, e.sealOk)
    IN  IF c.err = Nil /\ dec.err = Nil
        THEN [user |-> dec.user, err |-> Nil, calls |-> <<>>]
        ELSE IF c.err = Nil
        THEN [user |-> ZeroUser, err |-> dec.err, calls |-> <<>>]
        ELSE IF ~ba.ok
        THEN [user |-> ZeroUser, err |-> errNoLogin, calls |-> <<>>]
        ELSE IF chk.err /= Nil
        THEN [user |-> ZeroUser, err |-> chk.err,
              calls |-> <<Called(ba.u, ba.p)>>]
        ELSE IF ck.err /= Nil
        THEN [user |-> ZeroUser, err |-> ck.err,
              calls |-> <<Called(ba.u, ba.p)>>]
        ELSE [user |-> chk.user, err |-> Nil,
              calls |-> <<Called(ba.u, ba.p), SetCookie(ck.cookie)>>]

\* Server.verifyLogin: the user, the error, and the calls made on the way.
verifyLogin(r, e, t) ==
    LET c == Cookie(r, CookieName)
        dec == IF c.err = Nil
               THEN Decode(CookieName, c.cookie.Value, t)
               ELSE [user |-> ZeroUser, err |-> c.err]
        ba == BasicAuth(r)
        chk == CheckCredentials(ba.u, ba.p, e.dbUp)
        ck == newEncodedCookie(CookieName, chk.user, t, e.sealOk)
    IN  IF c.err = Nil /\ dec.err = Nil
        THEN [user |-> dec.user, err |-> Nil, calls |-> <<>>]
        ELSE IF ~ba.ok
        THEN [user |-> ZeroUser, err |-> errNoLogin, calls |-> <<>>]
        ELSE IF chk.err /= Nil
        THEN [user |-> ZeroUser, err |-> chk.err,
              calls |-> <<Called(ba.u, ba.p)>>]
        ELSE IF ck.err /= Nil
        THEN [user |-> ZeroUser, err |-> ck.err,
              calls |-> <<Called(ba.u, ba.p)>>]
        ELSE [user |-> chk.user, err |-> Nil,
              calls |-> <<Called(ba.u, ba.p), SetCookie(ck.cookie)>>]

\* requireLogin with the return after the error response left out.
requireLogin_FallsThrough(r, e, t) ==
    LET v == verifyLogin(r, e, t)
    IN  IF v.err /= Nil
        THEN v.calls \o
             <<SetCookie([Name |-> CookieName, Value |-> Nil, MaxAge |-> -1,
                          Secure |-> FALSE, HttpOnly |-> FALSE]),
               WriteJSONError(StatusUnauthorized, "login required"),
               NextCalled(v.user)>>
        ELSE v.calls \o <<NextCalled(v.user)>>

\* requireLogin with the clearing of the cookie left out.
requireLogin_NoClear(r, e, t) ==
    LET v == verifyLogin(r, e, t)
    IN  IF v.err /= Nil
        THEN v.calls \o <<WriteJSONError(StatusUnauthorized, "login required")>>
        ELSE v.calls \o <<NextCalled(v.user)>>

\* requireLogin trying verifyLogin a second time after a failure.
requireLogin_Retries(r, e, t) ==
    LET v == verifyLogin(r, e, t)
        w == verifyLogin(r, e, t)
    IN  IF v.err /= Nil /\ w.err /= Nil
        THEN v.calls \o w.calls \o
             <<SetCookie([Name |-> CookieName, Value |-> Nil, MaxAge |-> -1,
                          Secure |-> FALSE, HttpOnly |-> FALSE]),
               WriteJSONError(StatusUnauthorized, "login required")>>
        ELSE v.calls \o <<NextCalled(v.user)>>

\* requireLogin answering with the error verifyLogin returned.
requireLogin_LeaksError(r, e, t) ==
    LET v == verifyLogin(r, e, t)
    IN  IF v.err /= Nil
        THEN v.calls \o
             <<SetCookie([Name |-> CookieName, Value |-> Nil, MaxAge |-> -1,
                          Secure |-> FALSE, HttpOnly |-> FALSE]),
               WriteJSONError(StatusUnauthorized, v.err.msg)>>
        ELSE v.calls \o <<NextCalled(v.user)>>

\* Server.requireLogin(next): the handler it returns.
requireLogin(r, e, t) ==
    LET v == verifyLogin(r, e, t)
    IN  IF v.err /= Nil
        THEN v.calls \o
             <<SetCookie([Name |-> CookieName, Value |-> Nil, MaxAge |-> -1,
                          Secure |-> FALSE, HttpOnly |-> FALSE]),
               WriteJSONError(StatusUnauthorized, "login required")>>
        ELSE v.calls \o <<NextCalled(v.user)>>

\* loginState reporting the codec's error instead of the generic message.
loginState_LeaksCause(r, e, t) ==
    LET c == Cookie(r, CookieName)
        dec == IF c.err = Nil
               THEN Decode(CookieName, c.cookie.Value, t)
               ELSE [user |-> ZeroUser, err |-> c.err]
    IN  IF c.err /= Nil
        THEN <<WriteJSONError(StatusUnauthorized, "login required")>>
        ELSE IF dec.err /= Nil
        THEN <<WriteJSONError(StatusUnauthorized, dec.err.msg)>>
        ELSE <<WriteJSON([Name |-> dec.user.FirstName,
                          Username |-> dec.user.Email])>>

\* loginState resolving the identity with verifyLogin, as the guard does.
loginState_FallsBack(r, e, t) ==
    LET v == verifyLogin(r, e, t)
    IN  IF v.err /= Nil
        THEN v.calls \o <<WriteJSONError(StatusUnauthorized, "login required")>>
        ELSE v.calls \o <<WriteJSON([Name |-> v.user.FirstName,
                                      Username |-> v.user.Email])>>

\* loginState with the two fields of the unkeyed struct literal swapped.
loginState_SwapsFields(r, e, t) ==
    LET c == Cookie(r, CookieName)
        dec == IF c.err = Nil
               THEN Decode(CookieName, c.cookie.Value, t)
               ELSE [user |-> ZeroUser, err |-> c.err]
    IN  IF c.err /= Nil
        THEN <<WriteJSONError(StatusUnauthorized, "login required")>>
        ELSE IF dec.err /= Nil
        THEN <<WriteJSONError(StatusUnauthorized, "login required")>>
        ELSE <<WriteJSON([Name |-> dec.user.Email,
                          Username |-> dec.user.FirstName])>>

\* loginState with the check of Decode's error left out.
loginState_IgnoresDecodeError(r, e, t) ==
    LET c == Cookie(r, CookieName)
        dec == IF c.err = Nil
               THEN Decode(CookieName, c.cookie.Value, t)
               ELSE [user |-> ZeroUser, err |-> c.err]
    IN  IF c.err /= Nil
        THEN <<WriteJSONError(StatusUnauthorized, "login required")>>
        ELSE <<WriteJSON([Name |-> dec.user.FirstName,
                          Username |-> dec.user.Email])>>

\* Server.loginState
loginState(r, e, t) ==
    LET c == Cookie(r, CookieName)
        dec == IF c.err = Nil
               THEN Decode(CookieName, c.cookie.Value, t)
               ELSE [user |-> ZeroUser, err |-> c.err]
    IN  IF c.err /= Nil
        THEN <<WriteJSONError(StatusUnauthorized, "login required")>>
        ELSE IF dec.err /= Nil
        THEN <<WriteJSONError(StatusUnauthorized, "login required")>>
        ELSE <<WriteJSON([Name |-> dec.user.FirstName,
                          Username |-> dec.user.Email])>>

(***************************************************************************)
(* The handler of the current week (src/http/current.go).                  *)
(***************************************************************************)
\* nflpickem.Weeker.CurrentWeek(time.Now()): the week of the season at time
\* t, or the zero week beside an error when the datastore does not answer.
ZeroWeek == [Year |-> 0, Week |-> 0]
CurrentWeek(t, dbUp) ==
    IF dbUp
    THEN [week |-> [Year |-> 2016, Week |-> t + 1], err |-> Nil]
    ELSE [week |-> ZeroWeek, err |-> [msg |-> "datastore unavailable"]]

\* currentWeek(db): the handler it returns.  The error branch does not
\* return, so the week is written after the error envelope.
currentWeek(r, e, t) ==
    LET cw == CurrentWeek(t, e.dbUp)
    IN  (IF cw.err /= Nil
         THEN <<WriteJSONError(StatusInternalServerError, cw.err.msg)>>
         ELSE <<>>)
        \o <<WriteJSON(cw.week)>>

\* The route table of NewServer, for the entry points of the gateway.
Handler(op, r, e, t) ==
    CASE op = "login" -> login(r, e, t)
      [] op = "logout" -> logout(r, e, t)
      [] op = "state" -> loginState(r, e, t)
      [] op = "guard" -> requireLogin(r, e, t)
      [] op = "current" -> currentWeek(r, e, t)

(***************************************************************************)
(* What the client sees of a response trace.                               *)
(***************************************************************************)
Indices(tr, kind) == {i \in 1..Len(tr) : tr[i].ev = kind}

\* A panic in a handler is recovered by net/http, which drops the connection.
Panicked(tr) == Indices(tr, "panic") /= {}

\* The first write of the body sends the status line and the headers.
Writes(tr) == Indices(tr, "Write")
FirstWrite(tr) == CHOOSE i \in Writes(tr) : \A j \in Writes(tr) : i <= j
Status(tr) == IF Writes(tr) = {} THEN 0 ELSE tr[FirstWrite(tr)].code
Body(tr) == IF Writes(tr) = {} THEN Nil ELSE tr[FirstWrite(tr)].body

\* The Set-Cookie headers of the response, in order: those added before the
\* body is first written, by the handler itself or by next.
Sent(tr) == Writes(tr) \cup Indices(tr, "next")
InHeader(tr, i) == tr[i].ev = "SetCookie" /\ \A j \in Sent(tr) : i < j
RECURSIVE SetCookiesFrom(_, _)
SetCookiesFrom(tr, i) ==
    IF i > Len(tr) THEN <<>>
    ELSE IF InHeader(tr, i) THEN <<tr[i].cookie>> \o SetCookiesFrom(tr, i + 1)
    ELSE SetCookiesFrom(tr, i + 1)
SetCookies(tr) == IF Panicked(tr) THEN <<>> ELSE SetCookiesFrom(tr, 1)

NextCalls(tr) == Indices(tr, "next")
VerifierCalls(tr) == Indices(tr, "CheckCredentials")

\* A client that honors Set-Cookie: a negative MaxAge deletes the cookie,
\* anything else stores the value; later headers win.
RECURSIVE Store(_, _)
Store(j, cs) ==
    IF cs = <<>> THEN j
    ELSE Store(IF Head(cs).MaxAge < 0 THEN NoCookie ELSE Head(cs).Value, Tail(cs))

(***************************************************************************)
(* The test-data command (src/unnamed/part_000): the start of the week to  *)
(* generate.  A time.Time is a civil day, counted from 1970-01-01, and the *)
(* second of that day; the location is that of the argument throughout.    *)
(***************************************************************************)
Sunday == 0
Monday == 1
Tuesday == 2
Wednesday == 3
Thursday == 4

\* t.Weekday(): 1970-01-01 was a Thursday.
Weekday(t) == (t.day + Thursday) % 7

\* nextDay(now, day)
nextDay(t, day) ==
    LET diff == (day - Weekday(t) + 7) % 7
    IN  [day |-> t.day + diff, sec |-> 0]

\* nextNFLWeek(t)
nextNFLWeek(t) ==
    CASE Weekday(t) \in {Sunday, Monday} -> nextDay(t, Tuesday)
      [] Weekday(t) \in {Tuesday, Wednesday} ->
             nextDay([day |-> t.day - 7, sec |-> t.sec], Tuesday)
      [] OTHER -> nextDay(t, Tuesday)

Days == 0..MaxDay
SecondsOfDay == {0, 1, 46800, 86399}

(***************************************************************************)
(* Requests served concurrently.  net/http runs each handler invocation on *)
(* a goroutine of its own; what the invocation holds (w, r and the local   *)
(* variables of the handler) is its frame.  One step of an invocation is   *)
(* one call on the response writer or on a collaborator.                   *)
(***************************************************************************)
Procs == {"p1", "p2"}

\* The handlers keeping what they hold in the Server, shared by all invocations.
HomeInServer(p) == "server"

\* Where invocation p keeps w, r, user, cookie and err: in a frame of its own.
Home(p) == p
Slots == {Home(p) : p \in Procs}

NoFrame ==
    [op |-> "none", r |-> [cookie |-> NoCookie, auth |-> NoAuth],
     e |-> [dbUp |-> TRUE, sealOk |-> TRUE], at |-> 0, trace |-> <<>>]
NoCall ==
    [phase |-> "idle", op |-> "none", r |-> [cookie |-> NoCookie, auth |-> NoAuth],
     e |-> [dbUp |-> TRUE, sealOk |-> TRUE], at |-> 0, resp |-> <<>>]

(***************************************************************************)
(* The state machine.                                                      *)
(***************************************************************************)
Epoch == [day |-> 0, sec |-> 0]

Init ==
    /\ now = 0
    /\ jar = NoCookie
    /\ req = [op |-> "none", cookie |-> NoCookie, auth |-> NoAuth, at |-> 0]
    /\ env = [dbUp |-> TRUE, sealOk |-> TRUE]
    /\ resp = <<>>
    /\ calls = [p \in Procs |-> NoCall]
    /\ frames = [sl \in Slots |-> NoFrame]
    /\ wk = [t |-> Epoch, next |-> nextNFLWeek(Epoch)]

\* One request served from arrival to the last byte of the response.
Serve(op, c, a, d, s) ==
    LET r == [cookie |-> c, auth |-> a]
        e == [dbUp |-> d, sealOk |-> s]
        tr == Handler(op, r, e, now)
    IN  /\ req' = [op |-> op, cookie |-> c, auth |-> a, at |-> now]
        /\ env' = e
        /\ resp' = tr
        /\ jar' = Store(jar, SetCookies(tr))
        /\ UNCHANGED <<now, calls, frames, wk>>

Login(c, a, d, s) == Serve("login", c, a, d, s)
Logout(c, a, d, s) == Serve("logout", c, a, d, s)
LoginState(c, a, d, s) == Serve("state", c, a, d, s)
Guarded(c, a, d, s) == Serve("guard", c, a, d, s)
\* A request for the current week, from the client as it stands.
Current(d) == Serve("current", jar, NoAuth, d, TRUE)

\* Time passes.
Tick ==
    /\ now < MaxTime
    /\ now' = now + 1
    /\ UNCHANGED <<jar, req, env, resp, calls, frames, wk>>

\* Any request at all: the cookie and the credentials are the sender's choice.
Next ==
    \/ \E c \in RequestCookies(jar, now), a \in RequestAuths,
          d \in BOOLEAN, s \in BOOLEAN :
          \/ Login(c, a, d, s)
          \/ Logout(c, a, d, s)
          \/ LoginState(c, a, d, s)
          \/ Guarded(c, a, d, s)
    \/ \E d \in BOOLEAN : Current(d)
    \/ Tick

Spec == Init /\ [][Next]_vars

\* One client that sends the cookie it holds and honors Set-Cookie.
NextClient ==
    \/ \E a \in RequestAuths, d \in BOOLEAN, s \in BOOLEAN :
          \/ Login(jar, a, d, s)
          \/ Logout(jar, a, d, s)
          \/ LoginState(jar, a, d, s)
          \/ Guarded(jar, a, d, s)
    \/ Tick

SpecClient == Init /\ [][NextClient]_vars

\* The test-data command computing the start of the week at time t.
ComputeWeek(t) ==
    /\ wk' = [t |-> t, next |-> nextNFLWeek(t)]
    /\ UNCHANGED <<now, jar, req, env, resp, calls, frames>>

NextWeek == \E d \in Days, sec \in SecondsOfDay : ComputeWeek([day |-> d, sec |-> sec])

SpecWeek == Init /\ [][NextWeek]_vars

(***************************************************************************)
(* Concurrent requests, at a time when a cookie sealed at time 0 has       *)
(* expired.                                                                *)
(***************************************************************************)
InitConc ==
    /\ now = MaxTime
    /\ jar = NoCookie
    /\ req = [op |-> "none", cookie |-> NoCookie, auth |-> NoAuth, at |-> 0]
    /\ env = [dbUp |-> TRUE, sealOk |-> TRUE]
    /\ resp = <<>>
    /\ calls = [p \in Procs |-> NoCall]
    /\ frames = [sl \in Slots |-> NoFrame]
    /\ wk = [t |-> Epoch, next |-> nextNFLWeek(Epoch)]

\* The requests sent: with no cookie, a cookie of Alice's that unseals, or one
\* of Bob's that has expired; with no credentials, Bob's, or a wrong password.
ConcCookies ==
    {NoCookie,
     Encode(CookieName, Alice, now, TRUE).value,
     Encode(CookieName, Bob, 0, TRUE).value}
ConcAuths ==
    {NoAuth, [u |-> "bob@example.com", p |-> "bob-pw"],
     [u |-> "bob@example.com", p |-> "alice-pw"]}
ConcOps == {"login", "logout", "state", "guard"}

\* The server accepts a request from sender p and starts a handler invocation;
\* d is whether the datastore will answer it.
Arrive(p, op, c, a, d) ==
    /\ calls[p].phase /= "sent"
    /\ calls' = [calls EXCEPT ![p] =
                    [phase |-> "sent", op |-> op,
                     r |-> [cookie |-> c, auth |-> a],
                     e |-> [dbUp |-> d, sealOk |-> TRUE],
                     at |-> now, resp |-> <<>>]]
    /\ frames' = [frames EXCEPT ![Home(p)] =
                     [op |-> op, r |-> [cookie |-> c, auth |-> a],
                      e |-> [dbUp |-> d, sealOk |-> TRUE],
                      at |-> now, trace |-> <<>>]]
    /\ UNCHANGED <<now, jar, req, env, resp, wk>>

\* What the invocation in frame f does from start to end.
Run(f) == IF f.op = "none" THEN <<>> ELSE Handler(f.op, f.r, f.e, f.at)

\* The invocation of p makes its next call.
Step(p) ==
    LET f == frames[Home(p)]
    IN  /\ calls[p].phase = "sent"
        /\ Len(f.trace) < Len(Run(f))
        /\ frames' = [frames EXCEPT ![Home(p)].trace =
                         Append(f.trace, Run(f)[Len(f.trace) + 1])]
        /\ UNCHANGED <<now, jar, req, env, resp, calls, wk>>

\* The invocation of p returns, and the sender has the response.
Finish(p) ==
    LET f == frames[Home(p)]
    IN  /\ calls[p].phase = "sent"
        /\ Len(f.trace) >= Len(Run(f))
        /\ calls' = [calls EXCEPT ![p].phase = "done", ![p].resp = f.trace]
        /\ UNCHANGED <<now, jar, req, env, resp, frames, wk>>

NextConc ==
    \E p \in Procs :
        \/ \E op \in ConcOps, c \in ConcCookies, a \in ConcAuths, d \in BOOLEAN :
              Arrive(p, op, c, a, d)
        \/ Step(p)
        \/ Finish(p)

SpecConc == InitConc /\ [][NextConc]_vars

TypeOK ==
    /\ now \in 0..MaxTime
    /\ jar \in {NoCookie} \cup Tokens
    /\ req.op \in Ops \cup {"none"}
    /\ req.cookie \in {NoCookie} \cup Tokens
    /\ req.auth \in RequestAuths
    /\ req.at \in 0..now
    /\ env \in [dbUp : BOOLEAN, sealOk : BOOLEAN]

(***************************************************************************)
(* Vocabulary of the properties: the last request and its response.        *)
(***************************************************************************)
\* The request's cookie unsealed when the request was served.
CookieUnseals ==
    /\ req.cookie /= NoCookie
    /\ Decode(CookieName, req.cookie, req.at).err = Nil
CookieUser == Decode(CookieName, req.cookie, req.at).user

\* The request carried credentials and the Credential Verifier accepted them.
VerifierAccepts ==
    /\ req.auth /= NoAuth
    /\ CheckCredentials(req.auth.u, req.auth.p, env.dbUp).err = Nil
VerifierRejects ==
    /\ req.auth /= NoAuth
    /\ CheckCredentials(req.auth.u, req.auth.p, env.dbUp).err /= Nil
VerifierUser == CheckCredentials(req.auth.u, req.auth.p, env.dbUp).user

\* The codec sealed (or would have sealed) the identity without error.
SealSucceeds == Encode(CookieName, VerifierUser, req.at, env.sealOk).err = Nil

HeaderCookies == SetCookies(resp)
\* The response carries a cookie nflpickem that makes the client drop it.
ClearsCookie ==
    \E i \in 1..Len(HeaderCookies) :
        HeaderCookies[i].Name = CookieName /\ HeaderCookies[i].MaxAge < 0
ClearsCookieMinusOne ==
    \E i \in 1..Len(HeaderCookies) :
        HeaderCookies[i].Name = CookieName /\ HeaderCookies[i].MaxAge = -1
\* The response carries a freshly sealed cookie nflpickem for user u.
IssuesCookieFor(u) ==
    \E i \in 1..Len(HeaderCookies) :
        /\ HeaderCookies[i].Name = CookieName
        /\ HeaderCookies[i].MaxAge >= 0
        /\ HeaderCookies[i].Value \in Tokens
        /\ Decode(CookieName, HeaderCookies[i].Value, req.at).err = Nil
        /\ Decode(CookieName, HeaderCookies[i].Value, req.at).user = u
NoSetCookie == Indices(resp, "SetCookie") = {}
NoSetCookieIn(tr) == Indices(tr, "SetCookie") = {}

SuccessEnvelope(msg) ==
    /\ Status(resp) = StatusOK
    /\ Body(resp) = [status |-> "ok", message |-> msg]
AnySuccessEnvelope ==
    /\ Status(resp) = StatusOK
    /\ Body(resp) /= Nil
    /\ DOMAIN Body(resp) = {"status", "message"}
    /\ Body(resp).status = "ok"
ErrorEnvelope(code, msg) ==
    /\ Status(resp) = code
    /\ Body(resp) = [status |-> "error", message |-> msg]
LoginRequired == ErrorEnvelope(StatusUnauthorized, "login required")

\* next ran exactly once, with user u in the request's context.
NextInvokedWith(u) ==
    /\ Cardinality(NextCalls(resp)) = 1
    /\ \A i \in NextCalls(resp) : resp[i].user = u

(***************************************************************************)
(* C1.  Every logout request, whether it carried no cookie, a cookie that  *)
(* unseals or one that does not, is answered with a cookie nflpickem of    *)
(* negative MaxAge and a success envelope.                                 *)
(* The code does not do this for a request without a cookie: see logout.   *)
(***************************************************************************)
C1_LogoutAlwaysClears ==
    req.op = "logout" => ClearsCookie /\ AnySuccessEnvelope

\* The part of C1 the code does keep: a logout request that carried a cookie.
C1_LogoutWithCookieClears ==
    (req.op = "logout" /\ req.cookie /= NoCookie)
        => ClearsCookie /\ SuccessEnvelope("succesful logout")
\* The failing case: a logout request without a cookie made the handler panic.
C1_LogoutNoCookiePanics ==
    req.op = "logout" /\ req.cookie = NoCookie /\ Panicked(resp)

(***************************************************************************)
(* C2.  Guard, failure path: a guarded request with no Basic Auth and      *)
(* either no cookie or a cookie that does not unseal never reaches next,   *)
(* is answered 401, and the response carries nflpickem with MaxAge = -1.   *)
(***************************************************************************)
C2_GuardFailurePath ==
    (req.op = "guard" /\ req.auth = NoAuth /\ ~CookieUnseals)
        => /\ NextCalls(resp) = {}
           /\ Status(resp) = StatusUnauthorized
           /\ ClearsCookieMinusOne
C2_Witness ==
    /\ req.op = "guard" /\ req.auth = NoAuth
    /\ req.cookie /= NoCookie /\ ~CookieUnseals
    /\ Status(resp) = StatusUnauthorized

(***************************************************************************)
(* C3.  Guard, fast path: a guarded request whose cookie unseals, whatever *)
(* its Authorization header, runs next exactly once with the cookie's      *)
(* identity in the context, calls the Credential Verifier zero times and   *)
(* adds no Set-Cookie.                                                     *)
(***************************************************************************)
C3_GuardFastPath ==
    (req.op = "guard" /\ CookieUnseals)
        => /\ NextInvokedWith(CookieUser)
           /\ VerifierCalls(resp) = {}
           /\ NoSetCookie
\* A cookie for one user beside accepted credentials of the other.
C3_Witness ==
    /\ req.op = "guard" /\ CookieUnseals /\ VerifierAccepts
    /\ VerifierUser /= CookieUser
    /\ NextInvokedWith(CookieUser)

(***************************************************************************)
(* C4.  Guard, fallback: a guarded request with no cookie and Basic Auth   *)
(* credentials the Credential Verifier accepts runs next with the          *)
(* verifier's identity in the context, and the response carries a newly    *)
(* set cookie nflpickem issued before next runs.                           *)
(* As stated this fails when the codec cannot seal the identity; it holds  *)
(* of the requests whose identity the codec seals.                         *)
(***************************************************************************)
C4_Original ==
    (req.op = "guard" /\ req.cookie = NoCookie /\ VerifierAccepts)
        => NextInvokedWith(VerifierUser) /\ IssuesCookieFor(VerifierUser)
C4_GuardFallback ==
    (req.op = "guard" /\ req.cookie = NoCookie /\ VerifierAccepts /\ SealSucceeds)
        => NextInvokedWith(VerifierUser) /\ IssuesCookieFor(VerifierUser)
C4_Witness ==
    /\ req.op = "guard" /\ req.cookie = NoCookie /\ VerifierAccepts /\ SealSucceeds
    /\ NextInvokedWith(VerifierUser)
    /\ jar \in Tokens

(***************************************************************************)
(* C5.  Login with credentials the Credential Verifier accepts sets a      *)
(* cookie nflpickem and returns the success envelope "successfully logged  *)
(* in".                                                                    *)
(* As stated this fails when the codec cannot seal the identity; it holds  *)
(* of the requests whose identity the codec seals.                         *)
(***************************************************************************)
C5_Original ==
    (req.op = "login" /\ VerifierAccepts)
        => /\ IssuesCookieFor(VerifierUser)
           /\ SuccessEnvelope("successfully logged in")
C5_LoginAccepted ==
    (req.op = "login" /\ VerifierAccepts /\ SealSucceeds)
        => /\ IssuesCookieFor(VerifierUser)
           /\ SuccessEnvelope("successfully logged in")
C5_Witness ==
    /\ req.op = "login" /\ VerifierAccepts /\ SealSucceeds
    /\ SuccessEnvelope("successfully logged in")
    /\ jar \in Tokens /\ jar.user = VerifierUser

(***************************************************************************)
(* C6.  Login with credentials the Credential Verifier rejects sets no     *)
(* cookie and is answered with a status of 400 or more.                    *)
(***************************************************************************)
C6_LoginRejected ==
    (req.op = "login" /\ VerifierRejects)
        => NoSetCookie /\ Status(resp) >= 400
\* A wrong password while the client holds a session: the session stays.
C6_Witness ==
    /\ req.op = "login" /\ VerifierRejects /\ env.dbUp
    /\ Status(resp) >= 400
    /\ jar \in Tokens

(***************************************************************************)
(* Authentication failures, per entry point: no credentials at all,        *)
(* credentials the verifier rejects, a cookie that is missing or does not  *)
(* unseal (forged, altered or expired).                                    *)
(***************************************************************************)
LoginAuthFailure == req.op = "login" /\ (req.auth = NoAuth \/ VerifierRejects)
StateAuthFailure == req.op = "state" /\ ~CookieUnseals
GuardAuthFailure ==
    req.op = "guard" /\ ~CookieUnseals /\ (req.auth = NoAuth \/ VerifierRejects)
AuthFailure == LoginAuthFailure \/ StateAuthFailure \/ GuardAuthFailure

(***************************************************************************)
(* C7.  Every authentication failure on login, state inspection or the     *)
(* guard is answered 401 "login required".                                 *)
(* As stated this fails on login.  What holds: state inspection and the    *)
(* guard answer every authentication failure 401 "login required"; login   *)
(* answers 400 "missing credentials" without credentials, and 500 with the *)
(* verifier's own message for credentials the verifier rejects.            *)
(***************************************************************************)
C7_Original == AuthFailure => LoginRequired
C7_FailureStatus ==
    /\ (StateAuthFailure \/ GuardAuthFailure) => LoginRequired
    /\ (req.op = "login" /\ req.auth = NoAuth)
           => ErrorEnvelope(StatusBadRequest, "missing credentials")
    /\ (req.op = "login" /\ VerifierRejects)
           => ErrorEnvelope(StatusInternalServerError,
                  CheckCredentials(req.auth.u, req.auth.p, env.dbUp).err.msg)
\* State inspection of a cookie the client altered.
C7_Witness ==
    /\ StateAuthFailure
    /\ req.cookie \in Tokens /\ ~req.cookie.intact
    /\ LoginRequired

(***************************************************************************)
(* C8.  On every authentication failure, on any entry point, the response  *)
(* clears the session cookie (nflpickem, MaxAge = -1), so the client holds *)
(* no session cookie afterwards.                                           *)
(* As stated this fails on login and on state inspection.  What holds: the *)
(* guard clears the cookie on every authentication failure and the client  *)
(* then holds none; login and state inspection answer a failure without    *)
(* any Set-Cookie.                                                         *)
(***************************************************************************)
C8_Original == AuthFailure => ClearsCookieMinusOne /\ jar = NoCookie
C8_GuardClearsOnFailure ==
    /\ GuardAuthFailure => ClearsCookieMinusOne /\ jar = NoCookie
    /\ (LoginAuthFailure \/ StateAuthFailure) => NoSetCookie
\* The guard refusing a cookie the server issued and that has since expired.
C8_Witness ==
    /\ GuardAuthFailure
    /\ req.cookie \in Tokens /\ req.cookie.keys = ServerKeys /\ req.cookie.intact
    /\ ClearsCookieMinusOne /\ jar = NoCookie

(***************************************************************************)
(* C9.  State inspection reads the cookie and nothing else: it answers     *)
(* {Name, Username} of the cookie's identity when the cookie unseals and   *)
(* 401 otherwise, and never calls the Credential Verifier nor adds a       *)
(* Set-Cookie, whatever credentials the request carries.                   *)
(***************************************************************************)
C9_StateInspection ==
    req.op = "state"
        => /\ CookieUnseals
                => /\ Status(resp) = StatusOK
                   /\ Body(resp) = [Name |-> CookieUser.FirstName,
                                    Username |-> CookieUser.Email]
           /\ ~CookieUnseals => Status(resp) = StatusUnauthorized
           /\ VerifierCalls(resp) = {}
           /\ NoSetCookie
\* No session, but credentials the verifier would accept.
C9_Witness ==
    /\ req.op = "state" /\ ~CookieUnseals
    /\ VerifierAccepts /\ SealSucceeds
    /\ Status(resp) = StatusUnauthorized

(***************************************************************************)
(* C10.  The session of one client that sends the cookie it holds and      *)
(* honors Set-Cookie.  It is Authenticated while the cookie it holds       *)
(* unseals and Anonymous otherwise; the cookie it holds is never anything  *)
(* but a value the server sealed.  It becomes Authenticated only by a      *)
(* successful login or a successful Basic Auth fallback of the guard; it   *)
(* is Anonymous after every logout and after every request the guard       *)
(* refuses; and state inspection after logout answers 401 "login           *)
(* required".                                                              *)
(***************************************************************************)
Authenticated == jar /= NoCookie /\ Decode(CookieName, jar, now).err = Nil
Anonymous == ~Authenticated

LoginSucceeded ==
    req.op = "login" /\ SuccessEnvelope("successfully logged in")
FallbackSucceeded ==
    /\ req.op = "guard" /\ ~CookieUnseals
    /\ VerifierCalls(resp) /= {} /\ NextCalls(resp) /= {}
GuardRefused == req.op = "guard" /\ NextCalls(resp) = {}

C10_SessionStateMachine ==
    [][ /\ (Anonymous /\ Authenticated')
            => now' = now /\ (LoginSucceeded' \/ FallbackSucceeded')
        /\ req'.op = "logout" => Anonymous'
        /\ GuardRefused' => Anonymous'
        /\ (req.op = "logout" /\ req'.op = "state") => LoginRequired'
        /\ jar' \in Tokens => jar'.keys = ServerKeys /\ jar'.intact
      ]_vars
\* A live session ended by logout.
C10_Witness ==
    /\ req.op = "logout" /\ CookieUnseals
    /\ SuccessEnvelope("succesful logout")
    /\ jar = NoCookie

(***************************************************************************)
(* C11.  Round trip through the session: a cookie issued for u by login or *)
(* by the guard's fallback, presented unmodified on a later request to the *)
(* same server, resolves to u: state inspection answers u's first name and *)
(* email, and the guard runs next with u in the context.                   *)
(* As stated this fails once the cookie has outlived the codec's maximum   *)
(* age.  What holds: it resolves to u on every later request made before   *)
(* it expires, and to no identity at all (401) afterwards.                 *)
(***************************************************************************)
\* The last request issued a cookie, for VerifierUser; the client holds it.
Issuance == LoginSucceeded \/ FallbackSucceeded
Projection(u) == [Name |-> u.FirstName, Username |-> u.Email]
\* The step serves a state inspection or a guarded request carrying that cookie.
PresentsIssued ==
    /\ Issuance
    /\ now' = now
    /\ req'.op \in {"state", "guard"}
    /\ req'.cookie = jar
ResolvesToIssued ==
    /\ req'.op = "state"
           => Status(resp') = StatusOK /\ Body(resp') = Projection(VerifierUser)
    /\ req'.op = "guard"
           => /\ Cardinality(NextCalls(resp')) = 1
              /\ \A i \in NextCalls(resp') : resp'[i].user = VerifierUser
Expired(c, t) == c.ts < t - TokenLifetime

C11_Original == [][PresentsIssued => ResolvesToIssued]_vars
C11_RoundTrip ==
    [][ PresentsIssued
          => /\ ~Expired(jar, now) => ResolvesToIssued
             /\ (Expired(jar, now) /\ req'.op = "state")
                    => Status(resp') = StatusUnauthorized
             /\ (Expired(jar, now) /\ req'.op = "guard" /\ req'.auth = NoAuth)
                    => NextCalls(resp') = {}
      ]_vars
\* State inspection of a cookie issued on an earlier tick and still valid.
C11_Witness ==
    /\ req.op = "state" /\ CookieUnseals
    /\ req.cookie.ts < req.at
    /\ Body(resp) = Projection(req.cookie.user)

(***************************************************************************)
(* C12.  Per request the Credential Verifier is called at most once and at *)
(* most one Set-Cookie is written; a response the guard refuses never      *)
(* carries a freshly sealed cookie beside the clearing one.                *)
(***************************************************************************)
C12_BoundedSideEffects ==
    req.op \in {"login", "logout", "state", "guard"}
        => /\ Cardinality(VerifierCalls(resp)) <= 1
           /\ Cardinality(Indices(resp, "SetCookie")) <= 1
           /\ GuardRefused
                  => \A i \in Indices(resp, "SetCookie") : resp[i].cookie.MaxAge < 0
\* The guard refusing after the verifier accepted: the seal failed.
C12_Witness ==
    /\ GuardRefused /\ VerifierAccepts /\ ~SealSucceeds
    /\ Cardinality(VerifierCalls(resp)) = 1
    /\ Cardinality(Indices(resp, "SetCookie")) = 1

(***************************************************************************)
(* C14.  A cookie value that was not sealed under the server's keys, or    *)
(* that was altered after sealing, yields no identity: state inspection    *)
(* answers 401 and the guard, without Basic Auth, never runs next.         *)
(***************************************************************************)
Forged ==
    /\ req.cookie \in Tokens
    /\ (req.cookie.keys /= ServerKeys \/ ~req.cookie.intact)
C14_Unforgeable ==
    Forged
        => /\ req.op = "state" => LoginRequired
           /\ (req.op = "guard" /\ req.auth = NoAuth) => NextCalls(resp) = {}
           /\ (req.op = "guard" /\ NextCalls(resp) /= {})
                  => VerifierAccepts /\ NextInvokedWith(VerifierUser)
\* A value sealed for a user under other keys, at the current time.
C14_Witness ==
    /\ req.op = "state" /\ Forged
    /\ req.cookie.keys = OtherKeys /\ req.cookie.intact /\ req.cookie.ts = req.at
    /\ LoginRequired

(***************************************************************************)
(* C15.  Verify falls back whenever the fast path fails: a cookie that is  *)
(* present but does not unseal is treated like no cookie.  With accepted   *)
(* Basic Auth credentials the verifier is called once, a new sealed cookie *)
(* is set and next runs with the verifier's identity; without Basic Auth   *)
(* the result is "no login information found"; when the verifier fails its *)
(* error is returned and no cookie is set.                                 *)
(* As stated the first part fails when the codec cannot seal the identity; *)
(* it holds of the requests whose identity the codec seals.                *)
(***************************************************************************)
BadCookie == req.op = "guard" /\ req.cookie /= NoCookie /\ ~CookieUnseals
Verified == verifyLogin([cookie |-> req.cookie, auth |-> req.auth], env, req.at)
VerifiedWithoutCookie ==
    verifyLogin([cookie |-> NoCookie, auth |-> req.auth], env, req.at)
FallbackOutcome ==
    /\ Cardinality(VerifierCalls(resp)) = 1
    /\ IssuesCookieFor(VerifierUser)
    /\ NextInvokedWith(VerifierUser)
FallbackErrors ==
    /\ req.auth = NoAuth => Verified.err = errNoLogin /\ Verified.calls = <<>>
    /\ VerifierRejects
           => /\ Verified.err =
                     CheckCredentials(req.auth.u, req.auth.p, env.dbUp).err
              /\ NoSetCookieIn(Verified.calls)
C15_Original ==
    BadCookie
        => /\ VerifierAccepts => FallbackOutcome
           /\ FallbackErrors
C15_VerifyFallsBack ==
    BadCookie
        => /\ Verified = VerifiedWithoutCookie
           /\ (VerifierAccepts /\ SealSucceeds) => FallbackOutcome
           /\ FallbackErrors
\* A cookie that has expired, replaced through the fallback.
C15_Witness ==
    /\ BadCookie /\ VerifierAccepts /\ SealSucceeds
    /\ req.cookie.keys = ServerKeys /\ req.cookie.intact
    /\ FallbackOutcome
    /\ jar \in Tokens /\ jar /= req.cookie

(***************************************************************************)
(* C16.  The response to a refused request does not tell the cause.  The   *)
(* guard answers every failure (no cookie and no credentials, a cookie     *)
(* that does not decode, rejected credentials, a verifier error, a seal    *)
(* error) with the same status, body and Set-Cookie; state inspection      *)
(* answers a missing and an undecodable cookie alike.                      *)
(***************************************************************************)
ClearingCookie ==
    [Name |-> CookieName, Value |-> Nil, MaxAge |-> -1,
     Secure |-> FALSE, HttpOnly |-> FALSE]
C16_UniformFailure ==
    /\ GuardRefused
           => LoginRequired /\ HeaderCookies = <<ClearingCookie>>
    /\ (req.op = "state" /\ ~CookieUnseals)
           => LoginRequired /\ HeaderCookies = <<>>
\* The guard refusing because the seal failed after the verifier accepted.
C16_Witness ==
    /\ GuardRefused /\ ~CookieUnseals /\ VerifierAccepts /\ ~SealSucceeds
    /\ LoginRequired

(***************************************************************************)
(* C17.  Login takes credentials from Basic Auth only: a login request     *)
(* without them, even one carrying a session cookie that unseals, is       *)
(* answered 400 "missing credentials" with no call of the verifier and no  *)
(* Set-Cookie.                                                             *)
(***************************************************************************)
C17_LoginBasicAuthOnly ==
    (req.op = "login" /\ req.auth = NoAuth)
        => /\ ErrorEnvelope(StatusBadRequest, "missing credentials")
           /\ VerifierCalls(resp) = {}
           /\ NoSetCookie
C17_Witness ==
    /\ req.op = "login" /\ req.auth = NoAuth /\ CookieUnseals
    /\ Status(resp) = StatusBadRequest

(***************************************************************************)
(* C18.  Every cookie the gateway sets is named nflpickem; one that issues *)
(* a session (login, the guard's fallback) has HttpOnly set and MaxAge     *)
(* unset; one that ends it (logout, a refused guarded request) has         *)
(* MaxAge = -1.                                                            *)
(***************************************************************************)
Issues == req.op = "login" \/ (req.op = "guard" /\ ~GuardRefused)
Invalidates == req.op = "logout" \/ GuardRefused
C18_CookieAttributes ==
    \A i \in Indices(resp, "SetCookie") :
        /\ resp[i].cookie.Name = CookieName
        /\ Issues => resp[i].cookie.HttpOnly /\ resp[i].cookie.MaxAge = 0
        /\ Invalidates => resp[i].cookie.MaxAge = -1
\* A cookie issued by the guard's fallback.
C18_Witness ==
    /\ req.op = "guard" /\ ~GuardRefused
    /\ Indices(resp, "SetCookie") /= {}
    /\ \A i \in Indices(resp, "SetCookie") : resp[i].cookie.HttpOnly

(***************************************************************************)
(* C20.  The handler of the current week writes one response body per      *)
(* request: the week when db.CurrentWeek succeeds, one 500 error envelope  *)
(* when it fails, never an error envelope followed by a week.              *)
(* The code does not do this when db.CurrentWeek fails: see currentWeek.   *)
(***************************************************************************)
C20_OneBody ==
    req.op = "current"
        => /\ Cardinality(Writes(resp)) = 1
           /\ env.dbUp => resp = <<WriteJSON(CurrentWeek(req.at, TRUE).week)>>
           /\ ~env.dbUp
                  => resp = <<WriteJSONError(StatusInternalServerError,
                                  CurrentWeek(req.at, FALSE).err.msg)>>
\* The part of C20 the code does keep: the answer when db.CurrentWeek succeeds.
C20_OneBodyOnSuccess ==
    (req.op = "current" /\ env.dbUp)
        => resp = <<WriteJSON(CurrentWeek(req.at, TRUE).week)>>
\* The failing case: the error envelope, then the zero week.
C20_ErrorThenWeek ==
    /\ req.op = "current" /\ ~env.dbUp
    /\ Len(resp) = 2
    /\ resp[1].code = StatusInternalServerError
    /\ resp[2] = WriteJSON(ZeroWeek)

(***************************************************************************)
(* C19.  nextNFLWeek(t) is midnight of a Tuesday: the next Tuesday after t *)
(* when t is a Sunday, Monday, Thursday, Friday or Saturday; the Tuesday   *)
(* that starts the current week when t is a Tuesday or a Wednesday, that   *)
(* is the most recent Tuesday on or before t's date (t's own date when t   *)
(* is a Tuesday).                                                          *)
(* The code does not do this when t is a Tuesday: see nextNFLWeek.         *)
(***************************************************************************)
MidnightTuesday == wk.next.sec = 0 /\ Weekday(wk.next) = Tuesday
C19_NextNFLWeek ==
    /\ MidnightTuesday
    /\ Weekday(wk.t) \notin {Tuesday, Wednesday}
           => wk.next.day \in (wk.t.day + 1)..(wk.t.day + 6)
    /\ Weekday(wk.t) \in {Tuesday, Wednesday}
           => wk.next.day \in (wk.t.day - 6)..wk.t.day
\* The part of C19 the code does keep: every day but Tuesday.
C19_ExceptOnTuesday ==
    /\ MidnightTuesday
    /\ Weekday(wk.t) \notin {Tuesday, Wednesday}
           => wk.next.day \in (wk.t.day + 1)..(wk.t.day + 6)
    /\ Weekday(wk.t) = Wednesday => wk.next.day = wk.t.day - 1
\* The failing case: on a Tuesday, the Tuesday of the week before.
C19_TuesdayGoesBackAWeek ==
    /\ Weekday(wk.t) = Tuesday /\ wk.t.sec > 0
    /\ wk.next = [day |-> wk.t.day - 7, sec |-> 0]

(***************************************************************************)
(* C13.  Requests are independent under concurrency: however the calls of  *)
(* concurrent handler invocations interleave, each request's response and  *)
(* Set-Cookie are what they would be had it run alone, a function of its   *)
(* own cookie, its own credentials and the collaborators' answers.         *)
(***************************************************************************)
Alone(c) == Handler(c.op, c.r, c.e, c.at)
====
